---------------------------- MODULE Spec2Model ----------------------------
(***************************************************************************)
(* Model of src/app.py, the yogurt variety survey: a Streamlit script that *)
(* assigns a participant id and a condition to each session, validates a   *)
(* 3-slot form, inserts the response with a bounded retry loop, and shows  *)
(* the stacked percentage chart of all stored responses.                   *)
(*                                                                         *)
(* A script run of one session is cut into steps at its store operations   *)
(* and at its sleeps: sessions run in separate threads and share only the  *)
(* table yogurt_variety.                                                   *)
(***************************************************************************)
EXTENDS Naturals, Integers, Sequences, FiniteSets, TLC

(***************************************************************************)
(* Bounds of the model.                                                    *)
(***************************************************************************)
\* number of concurrent browser sessions
NumSessions == 2
\* insert attempts, over the whole run, that commit and still raise
MaxLost == 1
\* insert attempts, over the whole run of Spec, that raise
MaxFaults == 1
\* rows of each (condition, variety) cell in the stores SpecAgg starts from
MaxCell == 4
\* length of the sequences SpecClassify hands to classify_variety
MaxLen == 4

Sessions == 1..NumSessions

(***************************************************************************)
(* Program constants (src/app.py:14-18, 48, 65, 79-80, 121, 131, 133).     *)
(***************************************************************************)
FLAVORS == <<"Vanilla", "Strawberry", "Banana", "Blueberry", "Apricot", "Coffee">>
\* the source's label is an em dash, "select", an em dash
PLACEHOLDER == "- select -"
OPTIONS == <<PLACEHOLDER>> \o FLAVORS
SHOW_RESULTS_TO_STUDENTS == TRUE
DefaultRetries == 6
\* time.sleep(0.2 * (2 ** a)), in milliseconds
BackoffBaseMs == 200
\* random.randint(100000, 999999), both ends included
PidLow == 100000
PidHigh == 999999
\* a segment is labelled only if val >= 6
LabelMinPercent == 6
order_var == <<"Low", "Medium", "High">>
order_cond == <<"sequential", "simultaneous">>
ConditionChoices == <<"sequential", "simultaneous">>

Range(f) == {f[i] : i \in DOMAIN f}

\* classify_variety that counts the values of the first two slots only
classifyFirstTwo(choices) ==
    LET u == Cardinality({choices[1], choices[2]})
    IN  IF u = 1 THEN "Low" ELSE IF u = 2 THEN "Medium" ELSE "High"

(***************************************************************************)
(* classify_variety (src/app.py:20-23).                                    *)
(***************************************************************************)
classify_variety(choices) ==
    LET u == Cardinality(Range(choices))
    IN  IF u = 1 THEN "Low" ELSE IF u = 2 THEN "Medium" ELSE "High"

(***************************************************************************)
(* The table yogurt_variety (src/app.py:36-45) is the bag of its rows: a   *)
(* function from each row it holds to the number of copies.  A row holds   *)
(* the columns participant_id, condition, choices and variety, and two     *)
(* history tags that are no columns: sess, the session whose safe_insert   *)
(* call committed it (0 for a row of an earlier session), and acked,       *)
(* whether that attempt returned normally.  The columns id and created_at  *)
(* are left out: nothing reads them.                                       *)
(*                                                                         *)
(* fetch_counts (src/app.py:67-76): one record per (condition, variety)    *)
(* group that has rows, with its COUNT.  A DataFrame is the set of its     *)
(* rows.                                                                   *)
(***************************************************************************)
RECURSIVE Copies(_, _)
Copies(tbl, rows) ==
    IF rows = {} THEN 0
    ELSE LET r == CHOOSE x \in rows : TRUE IN tbl[r] + Copies(tbl, rows \ {r})

EmptyTable == [r \in {} |-> 0]
\* Inserted that skips a participant_id the table holds already
insertedUnlessPresent(tbl, r) ==
    IF \E q \in DOMAIN tbl : q.participant_id = r.participant_id THEN tbl
    ELSE tbl @@ (r :> 1)

\* Inserted that writes over the table: only the new row is left
insertedOver(tbl, r) == (r :> 1)

\* the table after INSERT of r
Inserted(tbl, r) ==
    IF r \in DOMAIN tbl THEN [tbl EXCEPT ![r] = @ + 1] ELSE tbl @@ (r :> 1)

\* fetch_counts that answers from a cache filled when the table was empty
fetchCountsStale(tbl) == {}

fetch_counts(tbl) ==
    LET groups == {<<r.condition, r.variety>> : r \in DOMAIN tbl}
    IN  {[condition |-> g[1], variety |-> g[2],
          n |-> Copies(tbl, {r \in DOMAIN tbl :
                   r.condition = g[1] /\ r.variety = g[2]})] : g \in groups}

\* a missing cell of a pivot table; counts are never negative
NaN == -1
\* what a chart place shows: nothing, st.info("No data yet."), or the bars
NoChart == [kind |-> "none"]
NoData == [kind |-> "info", text |-> "No data yet."]
\* a chart place where the run ended with the exception of the SELECT
Failed == [kind |-> "exception"]
\* a segment's text is <<k, "%">>, or nothing
NoLabel == <<>>

RECURSIVE SumN(_)
SumN(rows) ==
    IF rows = {} THEN 0
    ELSE LET r == CHOOSE x \in rows : TRUE IN r.n + SumN(rows \ {r})

\* lines 87-90: a zero row for every (condition, variety) that has none
ensure_cells(df) ==
    df \cup {[condition |-> c, variety |-> v, n |-> 0] :
                <<c, v>> \in {cv \in Range(order_cond) \X Range(order_var) :
                    ~ \E r \in df : r.condition = cv[1] /\ r.variety = cv[2]}}

\* line 93: index and columns are the values present, a missing cell is NaN
pivot_table(df) ==
    [c \in {r.condition : r \in df} |->
        [v \in {r.variety : r \in df} |->
            LET m == {r \in df : r.condition = c /\ r.variety = v}
            IN  IF m = {} THEN NaN ELSE SumN(m)]]

\* lines 94-95: the rows and columns of the order lists, NaN where absent
reindex(p, rows, cols) ==
    [c \in Range(rows) |->
        [v \in Range(cols) |->
            IF c \in DOMAIN p /\ v \in DOMAIN p[c] THEN p[c][v] ELSE NaN]]

\* line 96
fillna(p, x) ==
    [c \in DOMAIN p |-> [v \in DOMAIN p[c] |-> IF p[c][v] = NaN THEN x ELSE p[c][v]]]

RECURSIVE SumRow(_, _)
SumRow(f, dom) ==
    IF dom = {} THEN 0
    ELSE LET v == CHOOSE x \in dom : TRUE IN f[v] + SumRow(f, dom \ {v})

\* row_totals with the sum of the whole table in every row
rowTotalsGrand(pivot) ==
    [c \in DOMAIN pivot |->
        LET t == SumRow([d \in DOMAIN pivot |-> SumRow(pivot[d], DOMAIN pivot[d])],
                        DOMAIN pivot)
        IN  IF t = 0 THEN 1 ELSE t]

\* line 99: the row sums, a sum of 0 replaced by 1
row_totals(pivot) ==
    [c \in DOMAIN pivot |->
        LET t == SumRow(pivot[c], DOMAIN pivot[c]) IN IF t = 0 THEN 1 ELSE t]

\* line 100: pivot / totals * 100, kept exact as <<numerator, denominator>>.
\* pandas divides by 0 without raising: 0 / 0 is NaN, here <<0, 0>>
percent(pivot, totals) ==
    [c \in DOMAIN pivot |-> [v \in DOMAIN pivot[c] |-> <<pivot[c][v] * 100, totals[c]>>]]

\* f"{val:.0f}": the nearest integer, a tie to the even one.  The float val
\* has this rounding for every count up to a total of 39 rows.
round_0f(q) ==
    LET w == q[1] \div q[2]
        r == q[1] % q[2]
    IN  IF 2 * r > q[2] THEN w + 1
        ELSE IF 2 * r < q[2] THEN w
        ELSE IF w % 2 = 0 THEN w ELSE w + 1

\* lines 116-123: the text of each segment, none below 6 percent (and none
\* for NaN: NaN >= 6 is false)
segment_labels(perc) ==
    [c \in DOMAIN perc |->
        [v \in DOMAIN perc[c] |->
            IF perc[c][v][2] # 0 /\ perc[c][v][1] >= LabelMinPercent * perc[c][v][2]
            THEN <<round_0f(perc[c][v]), "%">> ELSE NoLabel]]

(***************************************************************************)
(* plot_stacked (src/app.py:78-125): what the chart shows, NoData for an   *)
(* empty frame.                                                            *)
(***************************************************************************)
plot_stacked(df) ==
    IF df = {} THEN NoData
    ELSE LET pivot == fillna(reindex(pivot_table(ensure_cells(df)), order_cond, order_var), 0)
             perc  == percent(pivot, row_totals(pivot))
         IN  [kind |-> "bars", pivot |-> pivot, perc |-> perc,
              labels |-> segment_labels(perc)]

(***************************************************************************)
(* State.                                                                  *)
(*   session_state[s]  st.session_state of session s: a dict with the keys *)
(*                     "pid", "condition", "done" once they are set        *)
(*   pc[s]             where the script of s stands: "idle" (no run),      *)
(*                     "insert" (in safe_insert, before attempt a),        *)
(*                     "sleep" (in time.sleep after failed attempt a),     *)
(*                     "rerun" (st.rerun() was called),                    *)
(*                     "results" (an admin run of a done session between   *)
(*                     the SELECT of line 146 and the SELECT of line 157)  *)
(*   a[s]              safe_insert's loop variable                         *)
(*   row[s]            the dict passed to safe_insert, NoRow outside a     *)
(*                     call                                                *)
(*   screen[s]         what the page of s shows below the charts           *)
(*   chart[s]          the two chart places of the page: live (admin, top) *)
(*                     and results (the done screen)                       *)
(*   store             the table yogurt_variety                            *)
(* History of the safe_insert call of s that runs or has just ended (the   *)
(* next run of the script forgets it):                                     *)
(*   log[s]            the outcome of each attempt made: "ok", "fail" (it  *)
(*                     raised, nothing stored) or "lost" (it committed and *)
(*                     raised)                                             *)
(*   slept[s]          the milliseconds slept                              *)
(*   before[s]         the rows of s in the store when the call began      *)
(* and faults, the attempts that have raised so far, counted up to         *)
(* MaxFaults.                                                              *)
(*   classified        a call of classify_variety made outside the forms   *)
(*                     (SpecClassify): its argument, whether it has        *)
(*                     returned or raised, and the value or the error      *)
(***************************************************************************)
VARIABLES session_state, pc, a, row, screen, chart, store, log, slept, before, faults,
          classified

vars == <<session_state, pc, a, row, screen, chart, store, log, slept, before, faults,
          classified>>

EmptyDict == [k \in {} |-> 0]
NoRow == [k \in {} |-> 0]
\* f"p_{n}"
MkPid(n) == <<"p_", n>>
\* PidDraws of random.randint(0, 999999)
pidDrawsFromZero == {0, PidHigh}

\* the number of values random.randint(100000, 999999) can return (both ends
\* included)
PidSpace == PidHigh - PidLow + 1

\* the draws of random.randint that the model follows: the two ends
PidDraws == {PidLow, PidHigh}
\* the pages that show the form with its Submit button
FormScreens == {"form", "incomplete", "exception"}
Outcomes == {"ok", "fail", "lost"}
\* what the store does to the statements of a script run before its INSERT:
\* it answers them, or it raises in the CREATE of init_db (line 46), or in
\* the first SELECT of fetch_counts the run makes (line 146 or line 157)
RunFaults == {"none", "create", "select"}
\* no call of classify_variety outside the forms
NoClassify == [choices |-> <<>>, status |-> "none", value |-> ""]

\* the forms the sessions of Spec and SpecOne submit: one slot left open, a
\* complete form with a repeat, a complete form without
InputChoices ==
    { <<"Vanilla", PLACEHOLDER, "Banana">>,
      <<"Vanilla", "Banana", "Vanilla">>,
      <<"Coffee", "Banana", "Vanilla">> }
\* every form the three selectboxes can send
AllForms == [1..3 -> Range(OPTIONS)]

\* the number of rows of session s, and of rows whose insert raised
Owned(tbl, s) == Copies(tbl, {r \in DOMAIN tbl : r.sess = s})
Lost(tbl) == Copies(tbl, {r \in DOMAIN tbl : ~ r.acked})

Init ==
    /\ session_state = [s \in Sessions |-> EmptyDict]
    /\ pc = [s \in Sessions |-> "idle"]
    /\ a = [s \in Sessions |-> 0]
    /\ row = [s \in Sessions |-> NoRow]
    /\ screen = [s \in Sessions |-> "blank"]
    /\ chart = [s \in Sessions |-> [live |-> NoChart, results |-> NoChart]]
    /\ store = EmptyTable
    /\ log = [s \in Sessions |-> <<>>]
    /\ slept = [s \in Sessions |-> 0]
    /\ before = [s \in Sessions |-> 0]
    /\ faults = 0
    /\ classified = NoClassify

\* setdefault without the test: the key is set on every run
setAlways(d, k, v) ==
    [x \in DOMAIN d \cup {k} |-> IF x = k THEN v ELSE d[x]]

\* `if k not in st.session_state: st.session_state[k] = v`
setdefault(d, k, v) ==
    IF k \in DOMAIN d THEN d
    ELSE [x \in DOMAIN d \cup {k} |-> IF x = k THEN v ELSE d[x]]

\* lines 130-135, with the draws n of randint and c of random.choice
init_session(d, n, c) ==
    setdefault(setdefault(setdefault(d, "pid", MkPid(n)), "condition", c), "done", FALSE)

\* incomplete that looks at the first slot only
incompleteFirstSlot(choices) == choices[1] = PLACEHOLDER

\* incomplete that refuses only a form with no selection at all
incompleteAllSlots(choices) == Range(choices) = {PLACEHOLDER}

\* lines 179-183 and 210-214: the form is refused
incomplete(choices) == PLACEHOLDER \in Range(choices)

\* make_row whose simultaneous branch kept the literal of the sequential one
makeRowSequential(d, choices) ==
    [participant_id |-> d.pid,
     condition |-> "sequential",
     choices |-> choices,
     variety |-> classify_variety(choices)]

\* lines 185-191 and 216-222: the dict handed to safe_insert; each branch
\* writes its own condition literal
make_row(d, choices) ==
    [participant_id |-> d.pid,
     condition |-> IF d.condition = "sequential" THEN "sequential" ELSE "simultaneous",
     choices |-> choices,
     variety |-> classify_variety(choices)]

\* the row as the table holds it, with its history tags
Stored(r, s, ok) ==
    [participant_id |-> r.participant_id, condition |-> r.condition,
     choices |-> r.choices, variety |-> r.variety, sess |-> s, acked |-> ok]

\* backoff_ms that grows by the base at each attempt instead of doubling
backoffLinear(i) == BackoffBaseMs * (i + 1)

\* time.sleep(0.2 * (2 ** a)), in milliseconds
backoff_ms(i) == BackoffBaseMs * (2 ^ i)

\* a run that does not reach safe_insert: the last call's frame is gone
NoCall(s) ==
    /\ UNCHANGED <<a, row>>
    /\ log' = [log EXCEPT ![s] = <<>>]
    /\ slept' = [slept EXCEPT ![s] = 0]
    /\ before' = [before EXCEPT ![s] = 0]

(***************************************************************************)
(* One run of the script (src/app.py:46, 130-224) up to its first store    *)
(* write: by session s, with ?admin=1 or not, with the Submit button       *)
(* pressed on the form c or not, with the draws n of randint and cnd of    *)
(* random.choice (used only when the key is not set), over a store that    *)
(* answers or raises as fault says.  An exception of the store ends the    *)
(* run with the exception on the page.  The run of a done session with     *)
(* ?admin=1 reads the table twice: its second read is the step Results.    *)
(***************************************************************************)
\* the run makes a SELECT before any INSERT: the live chart of the admin
\* (line 146) or the chart of the done screen (line 157)
ReadsTable(s, admin) ==
    admin \/ ((IF "done" \in DOMAIN session_state[s] THEN session_state[s].done ELSE FALSE)
                 /\ SHOW_RESULTS_TO_STUDENTS)

Counted(fault) == IF fault = "none" \/ faults = MaxFaults THEN faults ELSE faults + 1

RunScript(s, admin, submit, c, n, cnd, fault) ==
    LET d    == init_session(session_state[s], n, cnd)
        live == IF admin THEN plot_stacked(fetch_counts(store)) ELSE NoChart
    IN  /\ fault = "select" => ReadsTable(s, admin)
        /\ faults' = Counted(fault)
        /\ UNCHANGED <<store, classified>>
        /\ IF fault = "create"
           THEN \* line 46 raises: the script ends before line 130
                /\ UNCHANGED session_state
                /\ screen' = [screen EXCEPT ![s] = "crash"]
                /\ chart' = [chart EXCEPT ![s] = [live |-> NoChart, results |-> NoChart]]
                /\ pc' = [pc EXCEPT ![s] = "idle"]
                /\ NoCall(s)
           ELSE IF fault = "select" /\ admin
           THEN \* line 146 raises: the session is set up, nothing is drawn
                /\ session_state' = [session_state EXCEPT ![s] = d]
                /\ screen' = [screen EXCEPT ![s] = "crash"]
                /\ chart' = [chart EXCEPT ![s] = [live |-> Failed, results |-> NoChart]]
                /\ pc' = [pc EXCEPT ![s] = "idle"]
                /\ NoCall(s)
           ELSE IF d.done
           THEN \* lines 152-159: the done screen, st.stop()
                /\ session_state' = [session_state EXCEPT ![s] = d]
                /\ screen' = [screen EXCEPT ![s] = "done"]
                /\ IF admin
                   THEN \* line 146 has read; line 157 reads in the next step
                        /\ chart' = [chart EXCEPT ![s] = [live |-> live, results |-> NoChart]]
                        /\ pc' = [pc EXCEPT ![s] = "results"]
                   ELSE /\ chart' = [chart EXCEPT ![s] =
                               [live |-> NoChart,
                                results |-> IF ~ SHOW_RESULTS_TO_STUDENTS THEN NoChart
                                            ELSE IF fault = "select" THEN Failed
                                            ELSE plot_stacked(fetch_counts(store))]]
                        /\ pc' = [pc EXCEPT ![s] = "idle"]
                /\ NoCall(s)
           ELSE IF ~ submit
           THEN \* the form is drawn and the run ends
                /\ session_state' = [session_state EXCEPT ![s] = d]
                /\ screen' = [screen EXCEPT ![s] = "form"]
                /\ chart' = [chart EXCEPT ![s] = [live |-> live, results |-> NoChart]]
                /\ pc' = [pc EXCEPT ![s] = "idle"]
                /\ NoCall(s)
           ELSE IF incomplete(c)
           THEN \* st.error(...), st.stop()
                /\ session_state' = [session_state EXCEPT ![s] = d]
                /\ screen' = [screen EXCEPT ![s] = "incomplete"]
                /\ chart' = [chart EXCEPT ![s] = [live |-> live, results |-> NoChart]]
                /\ pc' = [pc EXCEPT ![s] = "idle"]
                /\ NoCall(s)
           ELSE \* safe_insert is entered
                /\ session_state' = [session_state EXCEPT ![s] = d]
                /\ screen' = [screen EXCEPT ![s] = "form"]
                /\ chart' = [chart EXCEPT ![s] = [live |-> live, results |-> NoChart]]
                /\ pc' = [pc EXCEPT ![s] = "insert"]
                /\ a' = [a EXCEPT ![s] = 0]
                /\ row' = [row EXCEPT ![s] = make_row(d, c)]
                /\ log' = [log EXCEPT ![s] = <<>>]
                /\ slept' = [slept EXCEPT ![s] = 0]
                /\ before' = [before EXCEPT ![s] = Owned(store, s)]

\* A run without a submit: the first contact, a rerun asked by the user, or
\* the rerun that st.rerun() starts.
Rerun(s, admin, n, cnd, fault) ==
    /\ pc[s] \in {"idle", "rerun"}
    /\ RunScript(s, admin, FALSE, <<>>, n, cnd, fault)

\* The Submit button of the form is pressed with the selections c.
CanSubmit(s) == pc[s] = "idle" /\ screen[s] \in FormScreens

Submit(s, admin, c, n, cnd, fault) ==
    /\ CanSubmit(s)
    /\ RunScript(s, admin, TRUE, c, n, cnd, fault)

\* line 157 of an admin run of a done session: the second SELECT of the run,
\* over the table as it is now; it answers or raises
Results(s, raises) ==
    /\ pc[s] = "results"
    /\ chart' = [chart EXCEPT ![s].results =
                    IF raises THEN Failed ELSE plot_stacked(fetch_counts(store))]
    /\ pc' = [pc EXCEPT ![s] = "idle"]
    /\ faults' = Counted(IF raises THEN "select" ELSE "none")
    /\ UNCHANGED <<session_state, a, row, screen, store, log, slept, before, classified>>

(***************************************************************************)
(* safe_insert (src/app.py:48-65), one attempt of the loop: the INSERT     *)
(* returns ("ok"), raises with nothing stored ("fail"), or raises after    *)
(* the autocommit connection has committed the row ("lost").  A return     *)
(* goes on to lines 192-193 or 223-224.                                    *)
(***************************************************************************)
\* Return without line 192 (223): the done flag is forgotten.
ReturnNoDone(s) ==
    /\ pc' = [pc EXCEPT ![s] = "rerun"]
    /\ row' = [row EXCEPT ![s] = NoRow]
    /\ UNCHANGED <<session_state, a, screen, slept>>

\* line 61 and lines 192-193 (223-224): the call returns, the session is done
\* and st.rerun() is called
Return(s) ==
    /\ session_state' = [session_state EXCEPT ![s].done = TRUE]
    /\ pc' = [pc EXCEPT ![s] = "rerun"]
    /\ row' = [row EXCEPT ![s] = NoRow]
    /\ UNCHANGED <<a, screen, slept>>

\* Raise with the last failure swallowed: the call returns as after a success.
RaiseSwallowed(s) == Return(s)

\* line 64: the last failure is raised, the run ends with the exception on
\* the page
Raise(s) ==
    /\ pc' = [pc EXCEPT ![s] = "idle"]
    /\ screen' = [screen EXCEPT ![s] = "exception"]
    /\ row' = [row EXCEPT ![s] = NoRow]
    /\ UNCHANGED <<session_state, a, slept>>

\* line 65: time.sleep(0.2 * (2 ** a))
Sleep(s) ==
    /\ pc' = [pc EXCEPT ![s] = "sleep"]
    /\ slept' = [slept EXCEPT ![s] = @ + backoff_ms(a[s])]
    /\ UNCHANGED <<session_state, a, row, screen>>

\* exhausted that gives up one attempt early: `if a == retries - 2`
exhaustedEarly(i, retries) == i = retries - 2

\* exhausted with the bound off by one: `if a == retries`
exhaustedLate(i, retries) == i = retries

\* line 63: `if a == retries - 1`
exhausted(i, retries) == i = retries - 1

Attempt(s, outcome) ==
    /\ pc[s] = "insert"
    /\ log' = [log EXCEPT ![s] = Append(@, outcome)]
    /\ store' = IF outcome = "fail" THEN store
                ELSE Inserted(store, Stored(row[s], s, outcome = "ok"))
    /\ faults' = IF outcome = "ok" \/ faults = MaxFaults THEN faults ELSE faults + 1
    /\ UNCHANGED <<chart, before, classified>>
    /\ IF outcome = "ok" THEN Return(s)
       ELSE IF exhausted(a[s], DefaultRetries) THEN Raise(s)
       ELSE Sleep(s)

\* the sleep ends: the next turn of the for loop
Wake(s) ==
    /\ pc[s] = "sleep"
    /\ a' = [a EXCEPT ![s] = @ + 1]
    /\ pc' = [pc EXCEPT ![s] = "insert"]
    /\ UNCHANGED <<session_state, row, screen, chart, store, log, slept, before, faults,
                   classified>>

\* the store may raise: under the budgets of the run
MayRaise(outcome) ==
    /\ outcome # "ok" => faults < MaxFaults
    /\ outcome = "lost" => Lost(store) < MaxLost

\* the store may raise in a script run: under the budget of the run
MayFault(fault) == fault # "none" => faults < MaxFaults

\* the numbers session s may draw from randint where several sessions run:
\* a number of its own, and for the second session also the number of the
\* first (the code does nothing against two sessions with one pid)
DrawsOf(s) == IF s = 2 THEN {PidLow, PidLow + 1} ELSE {PidLow + s - 1}

\* lines 130-133 draw only for a key that is not set: the draws of a run of
\* s where several sessions run (SpecOne, SpecForm and SpecAgg hand every
\* run a draw, used or not)
PidChoice(s, draws) ==
    IF "pid" \in DOMAIN session_state[s] THEN {session_state[s].pid[2]} ELSE draws
CondChoice(s) ==
    IF "condition" \in DOMAIN session_state[s] THEN {session_state[s].condition}
    ELSE Range(ConditionChoices)

\* sessions that differ in nothing (Spec) are numbered in the order of their
\* first contact
Arrived(s) == IF s = 1 THEN TRUE ELSE "pid" \in DOMAIN session_state[s - 1]

(***************************************************************************)
(* Spec: NumSessions participants (no ?admin=1) who submit the forms of    *)
(* InputChoices, over a store that answers CREATE and SELECT, raises in    *)
(* at most MaxFaults INSERT attempts and loses at most MaxLost             *)
(* acknowledgments.                                                        *)
(***************************************************************************)
Next ==
    \E s \in Sessions :
        \/ \E n \in PidChoice(s, DrawsOf(s)), cnd \in CondChoice(s) :
              Arrived(s) /\ Rerun(s, FALSE, n, cnd, "none")
        \/ \E c \in InputChoices, n \in PidChoice(s, DrawsOf(s)), cnd \in CondChoice(s) :
              Submit(s, FALSE, c, n, cnd, "none")
        \/ \E outcome \in Outcomes : MayRaise(outcome) /\ Attempt(s, outcome)
        \/ Wake(s)

Spec == Init /\ [][Next]_vars

(***************************************************************************)
(* SpecOne: one session, with or without ?admin=1, over a store that may   *)
(* raise at every statement, CREATE, SELECT or INSERT (and loses at most   *)
(* MaxLost acknowledgments): the retry loop runs to its end.               *)
(***************************************************************************)
NextOne ==
    \/ \E admin \in BOOLEAN, n \in PidDraws, cnd \in Range(ConditionChoices),
          fault \in RunFaults : Rerun(1, admin, n, cnd, fault)
    \/ \E admin \in BOOLEAN, c \in InputChoices, n \in PidDraws,
          cnd \in Range(ConditionChoices), fault \in RunFaults :
          Submit(1, admin, c, n, cnd, fault)
    \/ \E raises \in BOOLEAN : Results(1, raises)
    \/ \E outcome \in Outcomes :
          /\ outcome = "lost" => Lost(store) < MaxLost
          /\ Attempt(1, outcome)
    \/ Wake(1)

SpecOne == Init /\ [][NextOne]_vars

\* an attempt of the call of s, whatever the store answers
AnyAttempt(s) ==
    \E outcome \in Outcomes :
        /\ outcome = "lost" => Lost(store) < MaxLost
        /\ Attempt(s, outcome)

(***************************************************************************)
(* SpecOneLive: SpecOne where the script goes on once it is in             *)
(* safe_insert: cur.execute answers (it returns or raises) and time.sleep  *)
(* ends.  Nothing makes a user load the page or press Submit.              *)
(***************************************************************************)
SpecOneLive == SpecOne /\ WF_vars(AnyAttempt(1)) /\ WF_vars(Wake(1))

(***************************************************************************)
(* SpecAdmin: NumSessions sessions, the first of which always looks at the *)
(* page with ?admin=1, over a store that answers every INSERT and raises   *)
(* in at most MaxFaults CREATE or SELECT statements: the other sessions    *)
(* write between the two reads of an admin run.  The admin session comes   *)
(* at any time, before or after the others have written.                   *)
(***************************************************************************)
\* the sessions without ?admin=1 (2, 3, ...) are numbered in the order of
\* their first contact; the admin session (1) is under no order
ArrivedBesideAdmin(s) ==
    IF s <= 2 THEN TRUE ELSE "pid" \in DOMAIN session_state[s - 1]

NextAdmin ==
    \E s \in Sessions :
        \/ \E n \in PidChoice(s, DrawsOf(s)), cnd \in CondChoice(s), fault \in RunFaults :
              ArrivedBesideAdmin(s) /\ MayFault(fault) /\ Rerun(s, s = 1, n, cnd, fault)
        \/ \E c \in InputChoices, n \in PidChoice(s, DrawsOf(s)), cnd \in CondChoice(s),
              fault \in RunFaults :
              MayFault(fault) /\ Submit(s, s = 1, c, n, cnd, fault)
        \/ \E raises \in BOOLEAN : (raises => faults < MaxFaults) /\ Results(s, raises)
        \/ Attempt(s, "ok")

SpecAdmin == Init /\ [][NextAdmin]_vars

(***************************************************************************)
(* SpecForm: one session that submits every form the selectboxes can send, *)
(* over a store that does not raise.                                       *)
(***************************************************************************)
NextForm ==
    \/ \E n \in PidDraws, cnd \in Range(ConditionChoices) :
          Rerun(1, FALSE, n, cnd, "none")
    \/ \E c \in AllForms, n \in PidDraws, cnd \in Range(ConditionChoices) :
          Submit(1, FALSE, c, n, cnd, "none")
    \/ Attempt(1, "ok")

SpecForm == Init /\ [][NextForm]_vars

(***************************************************************************)
(* SpecAgg: the chart of an admin page over every table with at most       *)
(* MaxCell rows of each (condition, variety), left by earlier sessions.    *)
(***************************************************************************)
Cells == Range(order_cond) \X Range(order_var)

\* a row of an earlier session with condition c and variety v
PastRow(c, v) ==
    [participant_id |-> MkPid(PidLow), condition |-> c,
     choices |-> IF v = "Low" THEN <<"Vanilla", "Vanilla", "Vanilla">>
                 ELSE IF v = "Medium" THEN <<"Vanilla", "Banana", "Vanilla">>
                 ELSE <<"Coffee", "Banana", "Vanilla">>,
     variety |-> v, sess |-> 0, acked |-> TRUE]

\* the table with cnt[cell] rows of each cell
TableOf(cnt) ==
    LET rows == {PastRow(cv[1], cv[2]) : cv \in {x \in Cells : cnt[x] > 0}}
    IN  [r \in rows |-> cnt[<<r.condition, r.variety>>]]

InitAgg ==
    /\ session_state = [s \in Sessions |-> EmptyDict]
    /\ pc = [s \in Sessions |-> "idle"]
    /\ a = [s \in Sessions |-> 0]
    /\ row = [s \in Sessions |-> NoRow]
    /\ screen = [s \in Sessions |-> "blank"]
    /\ chart = [s \in Sessions |-> [live |-> NoChart, results |-> NoChart]]
    /\ store \in {TableOf(cnt) : cnt \in [Cells -> 0..MaxCell]}
    /\ log = [s \in Sessions |-> <<>>]
    /\ slept = [s \in Sessions |-> 0]
    /\ before = [s \in Sessions |-> 0]
    /\ faults = 0
    /\ classified = NoClassify

NextAgg ==
    \E n \in PidDraws, cnd \in Range(ConditionChoices) : Rerun(1, TRUE, n, cnd, "none")

SpecAgg == InitAgg /\ [][NextAgg]_vars

(***************************************************************************)
(* SpecClassify: classify_variety (src/app.py:20-23) called on its own     *)
(* with every sequence of at most MaxLen flavor labels.                    *)
(***************************************************************************)
RECURSIVE SeqsUpTo(_, _)
SeqsUpTo(S, n) ==
    IF n = 0 THEN {<<>>} ELSE SeqsUpTo(S, n - 1) \cup [1..n -> S]

InitClassify ==
    /\ session_state = [s \in Sessions |-> EmptyDict]
    /\ pc = [s \in Sessions |-> "idle"]
    /\ a = [s \in Sessions |-> 0]
    /\ row = [s \in Sessions |-> NoRow]
    /\ screen = [s \in Sessions |-> "blank"]
    /\ chart = [s \in Sessions |-> [live |-> NoChart, results |-> NoChart]]
    /\ store = EmptyTable
    /\ log = [s \in Sessions |-> <<>>]
    /\ slept = [s \in Sessions |-> 0]
    /\ before = [s \in Sessions |-> 0]
    /\ faults = 0
    /\ classified \in {[choices |-> c, status |-> "called", value |-> ""] :
                          c \in SeqsUpTo(Range(FLAVORS), MaxLen)}

\* the call runs lines 21-23: no statement of them raises, it returns
Classify ==
    /\ classified.status = "called"
    /\ classified' = [classified EXCEPT !.status = "returned",
                                        !.value = classify_variety(classified.choices)]
    /\ UNCHANGED <<session_state, pc, a, row, screen, chart, store, log, slept,
                   before, faults>>

NextClassify == Classify

SpecClassify == InitClassify /\ [][NextClassify]_vars

(***************************************************************************)
(* Properties.                                                             *)
(***************************************************************************)
Started(s) == "done" \in DOMAIN session_state[s]
IsDone(s) == IF Started(s) THEN session_state[s].done ELSE FALSE
\* the rows of session s whose insert returned normally
AckedRows(s) == Copies(store, {r \in DOMAIN store : r.sess = s /\ r.acked})

\* C1 as stated: the store holds at most one row per session.
C1_AtMostOneRowPerSession ==
    \A s \in Sessions : Owned(store, s) <= 1

\* C1, amended: the store holds at most one row per session whose insert
\* returned normally; a session is done exactly when it has that row, and a
\* done session is never inside safe_insert.  (A session has further rows
\* only from attempts that committed and still raised.)
C1_AtMostOneAcknowledgedRow ==
    \A s \in Sessions :
        /\ AckedRows(s) <= 1
        /\ (AckedRows(s) = 1) = IsDone(s)
        /\ IsDone(s) => pc[s] \notin {"insert", "sleep"} /\ row[s] = NoRow

\* two sessions are done, one of them with a second row left by an attempt
\* that committed and raised
C1_Witness ==
    \E s, t \in Sessions :
        /\ s # t /\ IsDone(s) /\ IsDone(t)
        /\ screen[s] = "done" /\ screen[t] = "done"
        /\ Owned(store, s) = 2 /\ AckedRows(s) = 1 /\ Owned(store, t) = 1

FiveFailsThenOk == <<"fail", "fail", "fail", "fail", "fail", "ok">>
SixFails == <<"fail", "fail", "fail", "fail", "fail", "fail">>

\* C2: a call of safe_insert whose first 5 attempts fail and whose 6th
\* succeeds returns without error and has added exactly one row; a call
\* whose 6 attempts all fail has added no row and has raised.
C2_RetryBound ==
    \A s \in Sessions :
        /\ log[s] = FiveFailsThenOk =>
              /\ pc[s] = "rerun" /\ screen[s] # "exception"
              /\ Owned(store, s) = before[s] + 1
        /\ log[s] = SixFails =>
              /\ pc[s] = "idle" /\ screen[s] = "exception"
              /\ Owned(store, s) = before[s]

\* the 6th attempt has just succeeded after 5 failures
C2_Witness ==
    \E s \in Sessions :
        log[s] = FiveFailsThenOk /\ pc[s] = "rerun" /\ Owned(store, s) = 1

\* C3: a session is done only if an insert of it returned normally; when
\* safe_insert raises, the done flag stays false, pid and condition are as
\* before, and the form can be submitted again.
C3_DoneOnlyIfAcked == \A s \in Sessions : IsDone(s) => AckedRows(s) >= 1

C3_RaiseKeepsSession ==
    \A s \in Sessions :
        (pc[s] = "insert" /\ pc'[s] = "idle") =>
            /\ session_state'[s] = session_state[s]
            /\ ~ session_state'[s].done
            /\ CanSubmit(s)'

\* C3: both parts, over every step of every session
C3_NoDoneWithoutPersist == []C3_DoneOnlyIfAcked /\ [][C3_RaiseKeepsSession]_vars

\* safe_insert has just raised on its 6th attempt; a row was committed on the
\* way, and still the session is not done
C3_Witness ==
    \E s \in Sessions :
        /\ Len(log[s]) = 6 /\ screen[s] = "exception" /\ pc[s] = "idle"
        /\ ~ IsDone(s) /\ Owned(store, s) = 1

HasOpenSlot(c) == \E i \in 1..3 : c[i] = PLACEHOLDER

\* C4: a submit with the placeholder in any of the 3 slots never invokes the
\* writer: no attempt is made, the store is unchanged and the session is not
\* done, whichever form (sequential or simultaneous) the session has.
C4_RejectedStep ==
    \A s \in Sessions : \A c \in InputChoices :
        (HasOpenSlot(c) /\ \E n \in DrawsOf(s), cnd \in Range(ConditionChoices),
                               fault \in RunFaults :
                               Submit(s, FALSE, c, n, cnd, fault)) =>
            /\ store' = store
            /\ pc'[s] = "idle" /\ row'[s] = NoRow /\ log'[s] = <<>>
            /\ ~ session_state'[s].done

\* C4: every step that submits a form with an open slot is such a step
C4_NoWriteOnRejection == [][C4_RejectedStep]_vars

\* a sequential and a simultaneous session have both been refused, and the
\* store is still empty
C4_Witness ==
    \E s, t \in Sessions :
        /\ screen[s] = "incomplete" /\ screen[t] = "incomplete"
        /\ session_state[s].condition = "sequential"
        /\ session_state[t].condition = "simultaneous"
        /\ store = EmptyTable

\* C5: a form is refused if and only if at least one slot holds the
\* placeholder: every form over OPTIONS with the placeholder is refused, and
\* every form of 3 flavors (repeats allowed) is handed to the writer.
C5_SubmitStep ==
    \A c \in AllForms :
        (\E n \in PidDraws, cnd \in Range(ConditionChoices) :
             Submit(1, FALSE, c, n, cnd, "none")) =>
            /\ HasOpenSlot(c) => screen'[1] = "incomplete" /\ pc'[1] = "idle"
            /\ (\A i \in 1..3 : c[i] \in Range(FLAVORS)) =>
                   /\ pc'[1] = "insert" /\ screen'[1] # "incomplete"
                   /\ row'[1] # NoRow
                   /\ row'[1].choices = c

\* C5: every step that submits a form refuses it iff it has the placeholder
C5_RejectIffPlaceholder == [][C5_SubmitStep]_vars

\* a form of 3 flavors with a repeat has been accepted: its insert is about
\* to be tried
C5_Witness ==
    /\ pc[1] = "insert"
    /\ row[1] # NoRow
    /\ row[1].choices = <<"Apricot", "Blueberry", "Apricot">>

\* the variety of 3 labels, from their equalities
VarietyOf(c) ==
    IF c[1] = c[2] /\ c[2] = c[3] THEN "Low"
    ELSE IF c[1] # c[2] /\ c[2] # c[3] /\ c[1] # c[3] THEN "High"
    ELSE "Medium"

Perms3 == {p \in [1..3 -> 1..3] : \A i, j \in 1..3 : i # j => p[i] # p[j]}

\* C6: classify_variety of 3 flavor labels is Low iff all 3 are equal, Medium
\* iff exactly 2 distinct values occur, High iff all 3 are distinct, and every
\* permutation of the labels gets the same category.
C6_Classification ==
    \A s \in Sessions :
        row[s] # NoRow =>
            /\ row[s].variety = VarietyOf(row[s].choices)
            /\ \A p \in Perms3 :
                  classify_variety([i \in 1..3 |-> row[s].choices[p[i]]]) = row[s].variety

\* a form whose first two slots differ and whose third repeats the first is
\* being inserted as Medium
C6_Witness ==
    /\ row[1] # NoRow
    /\ row[1].choices = <<"Coffee", "Apricot", "Coffee">>
    /\ row[1].variety = "Medium"

\* C7: once a session's participant id and condition are set, every later
\* run of the script leaves both as they are.
C7_AssignedStep ==
    \A s \in Sessions :
        "pid" \in DOMAIN session_state[s] /\ "condition" \in DOMAIN session_state[s] =>
            /\ session_state'[s].pid = session_state[s].pid
            /\ session_state'[s].condition = session_state[s].condition

\* C7: no step changes a participant id or a condition that is set
C7_AssignmentIsStable == [][C7_AssignedStep]_vars

\* the session has had an attempt that raised and one that returned, and has
\* been rerun to its done screen
C7_Witness ==
    /\ screen[1] = "done" /\ IsDone(1)
    /\ Owned(store, 1) = 2
    /\ session_state[1].pid = MkPid(PidHigh)

(***************************************************************************)
(* The aggregation, read off the table.                                    *)
(***************************************************************************)
CountOf(c, v) == Copies(store, {r \in DOMAIN store : r.condition = c /\ r.variety = v})
TotalOf(c) == Copies(store, {r \in DOMAIN store : r.condition = c})
RowCount == Copies(store, DOMAIN store)
\* the admin page of session 1 has been drawn (under SpecAgg, from the table
\* as it is)
LiveShown == screen[1] # "blank" /\ chart[1].live # NoChart
Live == chart[1].live

SixCells(ch) ==
    /\ DOMAIN ch.pivot = Range(order_cond)
    /\ DOMAIN ch.perc = Range(order_cond)
    /\ \A c \in Range(order_cond) :
          /\ DOMAIN ch.pivot[c] = Range(order_var)
          /\ DOMAIN ch.perc[c] = Range(order_var)
          /\ \A v \in Range(order_var) : CountOf(c, v) = 0 => ch.pivot[c][v] = 0

\* C8: the aggregation yields exactly the 6 cells of {sequential,
\* simultaneous} x {Low, Medium, High} for every table, the absent
\* combinations at 0, the table with no rows included.
C8_AlwaysSixCells ==
    LiveShown => Live.kind = "bars" /\ SixCells(Live)

\* k is a whole percent nearest to the quotient q
Nearest(k, q) ==
    LET diff == k * q[2] - q[1]
    IN  2 * (IF diff < 0 THEN 0 - diff ELSE diff) <= q[2]

ExampleTable ==
    TableOf([cv \in Cells |->
               IF cv = <<"sequential", "Low">> THEN 2
               ELSE IF cv = <<"sequential", "High">> THEN 1
               ELSE IF cv = <<"simultaneous", "Medium">> THEN 4
               ELSE 0])

\* C9: each cell's count is the number of rows with that condition and stored
\* variety, each cell's percentage is 100 * count / (rows of the condition),
\* shown rounded to a whole percent; sequential Low x2, High x1 and
\* simultaneous Medium x4 give sequential 67/0/33, simultaneous 0/100/0.
C9_CountsAndPercentages ==
    (LiveShown /\ Live.kind = "bars") =>
        /\ \A c \in Range(order_cond) : \A v \in Range(order_var) :
              /\ Live.pivot[c][v] = CountOf(c, v)
              /\ TotalOf(c) > 0 =>
                    /\ Live.perc[c][v] = <<100 * CountOf(c, v), TotalOf(c)>>
                    /\ Nearest(round_0f(Live.perc[c][v]), Live.perc[c][v])
                    /\ Live.labels[c][v] # NoLabel =>
                          Live.labels[c][v] = <<round_0f(Live.perc[c][v]), "%">>
        /\ store = ExampleTable =>
              /\ [v \in Range(order_var) |-> round_0f(Live.perc["sequential"][v])]
                    = [Low |-> 67, Medium |-> 0, High |-> 33]
              /\ [v \in Range(order_var) |-> round_0f(Live.perc["simultaneous"][v])]
                    = [Low |-> 0, Medium |-> 100, High |-> 0]

\* the chart of the example table, with its 67% label
C9_Witness ==
    /\ LiveShown /\ store = ExampleTable
    /\ Live.kind = "bars"
    /\ Live.labels["sequential"]["Low"] = <<67, "%">>

\* C10: a condition with no rows reports 0% for Low, Medium and High,
\* whatever the other condition's row count is, that of no rows included.
C10_ZeroPercentAlways ==
    LiveShown =>
        \A c \in Range(order_cond) :
            TotalOf(c) = 0 =>
                /\ Live.kind = "bars"
                /\ \A v \in Range(order_var) : Live.perc[c][v] = <<0, 1>>


(***************************************************************************)
(* The waits of one safe_insert call.                                      *)
(***************************************************************************)
\* the wait after each failed attempt that is followed by another one
Waits == <<200, 400, 800, 1600, 3200>>

RECURSIVE SumFirst(_, _)
SumFirst(q, k) == IF k = 0 THEN 0 ELSE q[k] + SumFirst(q, k - 1)

\* the sleeps the call of s has begun so far
SleepsOf(s) == a[s] + (IF pc[s] = "sleep" THEN 1 ELSE 0)
\* the call of s has made an attempt, and none has returned
AllFailed(s) == log[s] # <<>> /\ "ok" \notin Range(log[s])

\* C11 as stated: the wait starts at 200 ms and doubles at each attempt, and
\* a call whose 6 attempts all fail has slept 12600 ms.
C11_WorstCase12600 ==
    \A s \in Sessions :
        /\ log[s] # <<>> => slept[s] = SumFirst(Waits, SleepsOf(s))
        /\ (AllFailed(s) /\ Len(log[s]) = DefaultRetries) => slept[s] = 12600

\* C11, amended: the wait starts at 200 ms and doubles at each attempt
\* (200, 400, 800, 1600, 3200 ms); the 6th failure is raised without a wait,
\* so a call whose 6 attempts all fail has slept 5 times, 6200 ms in all, and
\* no call sleeps longer.
C11_WorstCase6200 ==
    \A s \in Sessions :
        /\ log[s] # <<>> => slept[s] = SumFirst(Waits, SleepsOf(s))
        /\ slept[s] <= 6200
        /\ (AllFailed(s) /\ Len(log[s]) = DefaultRetries) =>
              /\ slept[s] = 6200 /\ SleepsOf(s) = 5 /\ pc[s] = "idle"

\* all 6 attempts have failed and the call has raised after 6200 ms of sleep
C11_Witness ==
    \E s \in Sessions :
        /\ AllFailed(s) /\ Len(log[s]) = DefaultRetries
        /\ screen[s] = "exception" /\ slept[s] = 6200

(***************************************************************************)
(* The participant identifier.                                             *)
(***************************************************************************)
HasPid(s) == "pid" \in DOMAIN session_state[s]

\* C12 as stated: the identifier a session is given is drawn from a space of
\* at least 10^6 values.
C12_SpaceAtLeastMillion ==
    \A s \in Sessions : HasPid(s) => PidSpace >= 10 ^ 6

\* C12, amended: the identifier a session is given is "p_" followed by an
\* integer of 100000..999999, a space of 900000 values.
C12_SpaceIs900000 ==
    \A s \in Sessions :
        HasPid(s) =>
            /\ session_state[s].pid[1] = "p_"
            /\ session_state[s].pid[2] \in 100000..999999
            /\ PidSpace = 900000

\* a session has been given the largest identifier of the space
C12_Witness ==
    /\ HasPid(1) /\ session_state[1].pid = <<"p_", 999999>>
    /\ screen[1] = "form"

(***************************************************************************)
(* The classifier on sequences of any length.                              *)
(***************************************************************************)
\* C13 as stated: classify_variety fails with an InvalidInput error, and
\* returns no category, whenever its argument has a length other than 3.
C13_FailsOnBadLength ==
    (classified.status \notin {"none", "called"} /\ Len(classified.choices) # 3) =>
        classified.status = "raised" /\ classified.value = "InvalidInput"

(***************************************************************************)
(* The rows of the table.                                                  *)
(***************************************************************************)
\* C14: in every reachable state every persisted row has exactly 3 choices,
\* each a flavor label and none the placeholder; its variety is the
\* classification of its choices (Low, Medium, High by the number of distinct
\* values); its condition and participant id are those of the session that
\* submitted it.
C14_StoredRowsWellFormed ==
    \A r \in DOMAIN store :
        /\ Len(r.choices) = 3
        /\ \A i \in 1..3 : r.choices[i] \in Range(FLAVORS) /\ r.choices[i] # PLACEHOLDER
        /\ r.variety = VarietyOf(r.choices)
        /\ r.sess \in Sessions =>
              /\ HasPid(r.sess)
              /\ r.participant_id = session_state[r.sess].pid
              /\ r.condition = session_state[r.sess].condition

\* two sessions that drew the same participant id, one sequential and one
\* simultaneous, have each a row in the table, one Medium and one High
C14_Witness ==
    \E r, q \in DOMAIN store :
        /\ r.sess # q.sess
        /\ r.condition = "sequential" /\ q.condition = "simultaneous"
        /\ r.variety = "Medium" /\ q.variety = "High"
        /\ r.participant_id = q.participant_id

(***************************************************************************)
(* The course of one safe_insert call.                                     *)
(***************************************************************************)
InCall(s) == pc[s] \in {"insert", "sleep"}
LastOf(q) == q[Len(q)]

C15_CallShape ==
    \A s \in Sessions :
        /\ Len(log[s]) <= 6
        /\ \A i \in 1..(Len(log[s]) - 1) : log[s][i] # "ok"
        /\ pc[s] = "insert" => Len(log[s]) = a[s] /\ a[s] <= 5
        /\ pc[s] = "sleep" =>
              /\ log[s] # <<>> /\ LastOf(log[s]) # "ok"
              /\ Len(log[s]) = a[s] + 1 /\ Len(log[s]) <= 5
        /\ slept[s] > 0 => AllFailed(s) \/ Len(log[s]) >= 2
        /\ (log[s] # <<>> /\ ~ InCall(s)) =>
              \/ LastOf(log[s]) = "ok" /\ pc[s] = "rerun"
              \/ /\ AllFailed(s) /\ Len(log[s]) = 6
                 /\ pc[s] = "idle" /\ screen[s] = "exception"

\* the only steps of a session inside safe_insert: an attempt, then the
\* return, the raise or the sleep; the end of the sleep, then an attempt
C15_NoCancel ==
    \A s \in Sessions :
        (InCall(s) /\ pc'[s] # pc[s]) =>
            \/ pc[s] = "sleep" /\ pc'[s] = "insert" /\ log'[s] = log[s]
            \/ pc[s] = "insert" /\ Len(log'[s]) = Len(log[s]) + 1

\* C15: every call of safe_insert terminates and nothing cancels it: it makes
\* at most 6 attempts, none after the first that succeeds, sleeps only
\* between a failed attempt and the next, and ends by returning after a
\* success or by raising after the 6th failure.
C15_CallTerminates ==
    /\ []C15_CallShape
    /\ [][C15_NoCancel]_vars
    /\ \A s \in Sessions : (pc[s] = "sleep") ~> (pc[s] = "insert")
    /\ \A s \in Sessions : InCall(s) ~> ~ InCall(s)

\* a call has returned on its 3rd attempt, after two failures and 600 ms
C15_Witness ==
    \E s \in Sessions :
        /\ log[s] = <<"fail", "fail", "ok">> /\ pc[s] = "rerun"
        /\ slept[s] = 600 /\ Owned(store, s) = before[s] + 1

(***************************************************************************)
(* Sessions that write at the same time.                                   *)
(***************************************************************************)
DoneSessions == {s \in Sessions : IsDone(s)}
AllDone == DoneSessions = Sessions

\* while s sleeps, the attempt of t can succeed at once: t is done, its row
\* is added to the rows there are, and s sleeps on
CanFinishBeside(s, t) ==
    ENABLED ( /\ Attempt(t, "ok")
              /\ session_state'[t].done
              /\ pc'[s] = "sleep"
              /\ store' = Inserted(store, Stored(row[t], t, TRUE)) )

\* C16 as stated: while one session sleeps in its backoff any other session
\* can complete its insert and reach done, and once each of the N sessions
\* has had a successful attempt the store holds exactly N rows, one per
\* session.
C16_ExactlyNRows ==
    /\ \A s, t \in Sessions :
          (s # t /\ pc[s] = "sleep" /\ pc[t] = "insert") => CanFinishBeside(s, t)
    /\ AllDone => /\ RowCount = NumSessions
                  /\ \A s \in Sessions : Owned(store, s) = 1

\* C16, amended: while one session sleeps in its backoff any other session
\* can complete its insert and reach done; whenever no session is inside
\* safe_insert the store holds one row for each done session, no row of
\* which was lost or overwritten, and besides them only the rows of attempts
\* that committed and still raised.  Once each of the N sessions has had an
\* attempt that returned, these are N rows, one per session, and the rows of
\* lost acknowledgments.
C16_IndependentSessions ==
    /\ \A s, t \in Sessions :
          (s # t /\ pc[s] = "sleep" /\ pc[t] = "insert") => CanFinishBeside(s, t)
    /\ \A s \in Sessions : IsDone(s) => AckedRows(s) = 1
    /\ (\A s \in Sessions : ~ InCall(s)) =>
          RowCount = Cardinality(DoneSessions) + Lost(store)
    /\ AllDone => RowCount = NumSessions + Lost(store)

\* every session is done with its one row; one of them slept 200 ms after a
\* failed attempt and then succeeded, the others have their rows as well
C16_Witness ==
    /\ AllDone /\ RowCount = NumSessions
    /\ \A s \in Sessions : Owned(store, s) = 1
    /\ \E s \in Sessions :
          log[s] = <<"fail", "ok">> /\ slept[s] = 200 /\ pc[s] = "rerun"

(***************************************************************************)
(* The acknowledgment that is lost.                                        *)
(***************************************************************************)
\* the attempts of q that committed a row
RECURSIVE Committed(_)
Committed(q) ==
    IF q = <<>> THEN 0
    ELSE (IF LastOf(q) = "fail" THEN 0 ELSE 1) + Committed(SubSeq(q, 1, Len(q) - 1))

\* the attempt of s that this step makes commits its row and raises
LostStep(s) ==
    /\ pc[s] = "insert"
    /\ log'[s] = Append(log[s], "lost")

\* the loop goes on as after an attempt that stored nothing: it sleeps the
\* wait of this attempt, or raises if it was the 6th; the row stays
C17_LostStepRetries ==
    \A s \in Sessions :
        LostStep(s) =>
            /\ Owned(store', s) = Owned(store, s) + 1
            /\ session_state'[s] = session_state[s] /\ ~ session_state[s].done
            /\ row'[s] = (IF a[s] = 5 THEN NoRow ELSE row[s])
            /\ pc'[s] = (IF a[s] = 5 THEN "idle" ELSE "sleep")
            /\ slept'[s] = slept[s] + (IF a[s] = 5 THEN 0 ELSE Waits[a[s] + 1])

\* every attempt of a call that commits leaves a row of its own
C17_OneRowPerCommit ==
    \A s \in Sessions :
        log[s] # <<>> => Owned(store, s) = before[s] + Committed(log[s])

\* C17: an attempt that commits and reports failure is retried like one that
\* failed, and the retry inserts again: the rows one submission leaves for its
\* session are as many as its attempts that committed, which can be more
\* than one.
C17_RetryThenDuplicate == []C17_OneRowPerCommit /\ [][C17_LostStepRetries]_vars

\* one submission: the first attempt committed and raised, the second
\* returned, and the session has two rows with the same participant_id
C17_Witness ==
    \E s \in Sessions :
        /\ log[s] = <<"lost", "ok">> /\ before[s] = 0 /\ Owned(store, s) = 2
        /\ \E r, q \in DOMAIN store :
              /\ r # q /\ r.sess = s /\ q.sess = s
              /\ r.participant_id = q.participant_id /\ r.choices = q.choices

(***************************************************************************)
(* The chart of the done screen.                                           *)
(***************************************************************************)
\* the rows of session s with condition c and variety v
OwnedIn(s, c, v) ==
    Copies(store, {r \in DOMAIN store : r.sess = s /\ r.condition = c /\ r.variety = v})

\* the chart ch counts the rows of session s in the cell of a row of s whose
\* insert returned
CountsOwn(ch, s) ==
    \E r \in DOMAIN store :
        /\ r.sess = s /\ r.acked
        /\ r.condition = session_state[s].condition
        /\ ch.pivot[r.condition][r.variety] >= 1
        /\ ch.pivot[r.condition][r.variety] >= OwnedIn(s, r.condition, r.variety)
        /\ ch.pivot[r.condition][r.variety] <= CountOf(r.condition, r.variety)

\* C18: every chart of the done screen of a session is computed from a read
\* of the table made after the session's insert returned: it is never "No
\* data yet."; where it shows bars, the cell of the session's condition and
\* submitted variety counts the session's own row, so it is at least 1,
\* whatever other sessions write, also between the two reads of an admin
\* page.  (A chart is missing only while its SELECT is still to come, or
\* shows the exception when the SELECT raised.)
C18_ReadYourOwnWrite ==
    \A s \in Sessions :
        screen[s] = "done" =>
            /\ IsDone(s)
            /\ pc[s] \in {"idle", "results"}
            /\ (chart[s].results.kind = "none") = (pc[s] = "results")
            /\ chart[s].results.kind \in {"none", "bars", "exception"}
            /\ chart[s].live.kind \in {"none", "bars"}
            /\ chart[s].results.kind = "bars" => CountsOwn(chart[s].results, s)
            /\ chart[s].live.kind = "bars" => CountsOwn(chart[s].live, s)

\* the admin session looks at its done screen: both charts count its row,
\* and the second chart counts a row more than the first, written by another
\* session between the two reads
C18_Witness ==
    /\ screen[1] = "done" /\ pc[1] = "idle"
    /\ chart[1].live.kind = "bars" /\ chart[1].results.kind = "bars"
    /\ CountsOwn(chart[1].live, 1) /\ CountsOwn(chart[1].results, 1)
    /\ chart[1].live.pivot # chart[1].results.pivot
    /\ \E t \in Sessions : t # 1 /\ Owned(store, t) = 1

=============================================================================
